---- MODULE Spec2Model ----
(***************************************************************************)
(* The Markdown front end of scrut: MarkdownIterator (the tokenizer) and   *)
(* MarkdownParser::parse (the driver), src/src/parsers/markdown.rs.        *)
(*                                                                         *)
(* A document is a sequence of lines; a line is a string.  TLA+ string     *)
(* literals cannot hold the backtick, so the apostrophe stands for it in   *)
(* every line of the model: "'''scrut" is the line that opens a scrut      *)
(* block with a run of three backticks.                                    *)
(***************************************************************************)
EXTENDS Integers, Sequences, FiniteSets, TLC

VARIABLES
    doc,                    \* text.lines(): the document, fixed for one parse
    languages,              \* MarkdownParser.languages
    pos,                    \* how many lines document_lines has handed out
    line_index,             \* MarkdownIterator.line_index
    content_start,          \* MarkdownIterator.content_start
    heading_stack,          \* parse: heading_stack
    config,                 \* parse: config, the running DocumentConfig
    has_title_since_break,  \* parse: has_title_since_break
    line_parser,            \* parse: line_parser, the body accumulator
    outcome,                \* what parse has returned, Running before that
    calls                   \* history: the calls of next() so far, each with
                            \* the lines it read, the token it gave and
                            \* parse's local state when it was made

vars == << doc, languages, pos, line_index, content_start, heading_stack,
           config, has_title_since_break, line_parser, outcome, calls >>

---------------------------------------------------------------------------
(* Option<T> *)

None == [some |-> FALSE]
Some(v) == [some |-> TRUE, val |-> v]

---------------------------------------------------------------------------
(* Strings *)

BACKTICK == "'"

Char(s, i) == SubSeq(s, i, i)

StartsWith(s, prefix) ==
    /\ Len(prefix) <= Len(s)
    /\ SubSeq(s, 1, Len(prefix)) = prefix

EndsWith(s, suffix) ==
    /\ Len(suffix) <= Len(s)
    /\ SubSeq(s, Len(s) - Len(suffix) + 1, Len(s)) = suffix

IsWhitespace(c) == c \in {" ", "\t"}

Letters ==
    { "a", "b", "c", "d", "e", "f", "g", "h", "i", "j", "k", "l", "m",
      "n", "o", "p", "q", "r", "s", "t", "u", "v", "w", "x", "y", "z",
      "A", "B", "C", "D", "E", "F", "G", "H", "I", "J", "K", "L", "M",
      "N", "O", "P", "Q", "R", "S", "T", "U", "V", "W", "X", "Y", "Z" }

IsLetter(c) == c \in Letters

RECURSIVE TrimStart(_)
TrimStart(s) ==
    IF Len(s) > 0 /\ IsWhitespace(Char(s, 1)) THEN TrimStart(Tail(s)) ELSE s

RECURSIVE TrimEnd(_)
TrimEnd(s) ==
    IF Len(s) > 0 /\ IsWhitespace(Char(s, Len(s)))
    THEN TrimEnd(SubSeq(s, 1, Len(s) - 1))
    ELSE s

Trim(s) == TrimEnd(TrimStart(s))

RECURSIVE Join(_, _)
Join(strs, sep) ==
    IF Len(strs) = 0 THEN ""
    ELSE IF Len(strs) = 1 THEN strs[1]
    ELSE strs[1] \o sep \o Join(Tail(strs), sep)

\* NumberedLines::join_newline: the texts of (index, text) pairs, joined
join_newline(numbered) ==
    Join([i \in 1..Len(numbered) |-> numbered[i][2]], "\n")

---------------------------------------------------------------------------
(* The fence classifier *)

\* the loop of extract_code_block_start over line.chars().enumerate():
\* index is 0-based, language_start an Option<usize>
RECURSIVE ScanFence(_, _, _)
ScanFence(line, index, language_start) ==
    IF index >= Len(line)
    THEN IF language_start.some
         THEN Some([backticks |-> SubSeq(line, 1, language_start.val),
                    language  |-> SubSeq(line, language_start.val + 1, Len(line)),
                    config    |-> ""])
         ELSE None
    ELSE LET ch == Char(line, index + 1) IN
         IF language_start.some
         THEN IF ch = "{"
              THEN Some([backticks |-> SubSeq(line, 1, language_start.val),
                         language  |-> TrimEnd(SubSeq(line, language_start.val + 1, index)),
                         config    |-> SubSeq(line, index + 1, Len(line))])
              ELSE ScanFence(line, index + 1, language_start)
         ELSE IF ch # BACKTICK
              THEN IF index < 2
                   THEN None
                   ELSE ScanFence(line, index + 1, Some(index))
              ELSE ScanFence(line, index + 1, language_start)

extract_code_block_start(line) ==
    IF line = "'''"
    THEN Some([backticks |-> line, language |-> "", config |-> ""])
    ELSE ScanFence(line, 0, None)

---------------------------------------------------------------------------
(* The title classifier *)

RECURSIVE LeadingRun(_, _)
\* how many characters at the start of s satisfy the class ("#" or whitespace)
LeadingRun(s, class) ==
    IF Len(s) > 0 /\ (IF class = "#" THEN Char(s, 1) = "#" ELSE IsWhitespace(Char(s, 1)))
    THEN 1 + LeadingRun(Tail(s), class)
    ELSE 0

\* HEADER_LINE = ^(#+\s+)(.+)$ ; the level is the number of # in group 1
extract_header(line) ==
    LET hashes == LeadingRun(line, "#")
        rest   == SubSeq(line, hashes + 1, Len(line))
        spaces == LeadingRun(rest, " ")
        title  == SubSeq(rest, spaces + 1, Len(rest))
    IN  IF hashes >= 1 /\ spaces >= 1 /\ Len(title) >= 1
        THEN Some([prefix |-> SubSeq(line, 1, hashes + spaces),
                   title  |-> title,
                   level  |-> hashes])
        ELSE None

\* PARAGRAPH_START = ^\p{L}+
extract_title(raw) ==
    LET line == Trim(raw) IN
    IF extract_header(line).some
    THEN extract_header(line)
    ELSE IF Len(line) > 0 /\ IsLetter(Char(line, 1))
         THEN Some([prefix |-> "", title |-> line, level |-> 0])
         ELSE None

\* line_parser::is_comment, the comment recognizer
is_comment(line) == StartsWith(line, "#")

---------------------------------------------------------------------------
(* HeadingStack *)

MAX_HEADING_LEVEL == 6

HeadingStackDefault ==
    [headings |-> [l \in 1..MAX_HEADING_LEVEL |-> None], paragraph |-> << >>]

\* a variant of the operation below that stores a heading deeper than the
\* deepest level at the deepest level
set_headingClamping(hs, level, title) ==
    IF level = 0
    THEN hs
    ELSE LET at == IF level > MAX_HEADING_LEVEL THEN MAX_HEADING_LEVEL ELSE level IN
         [headings  |-> [l \in 1..MAX_HEADING_LEVEL |->
                            IF l = at THEN Some(title)
                            ELSE IF l > at THEN None
                            ELSE hs.headings[l]],
          paragraph |-> << >>]

\* a variant of the operation below that keeps the deeper headings
set_headingKeepingDeeper(hs, level, title) ==
    IF level = 0 \/ level > MAX_HEADING_LEVEL
    THEN hs
    ELSE [headings  |-> [hs.headings EXCEPT ![level] = Some(title)],
          paragraph |-> << >>]

set_heading(hs, level, title) ==
    IF level = 0 \/ level > MAX_HEADING_LEVEL
    THEN hs
    ELSE [headings  |-> [l \in 1..MAX_HEADING_LEVEL |->
                            IF l = level THEN Some(title)
                            ELSE IF l > level THEN None
                            ELSE hs.headings[l]],
          paragraph |-> << >>]

add_paragraph(hs, text) == [hs EXCEPT !.paragraph = Append(@, text)]

\* a variant of the operation below that leaves the paragraph pending
clear_paragraphKeeping(hs) == hs

clear_paragraph(hs) == [hs EXCEPT !.paragraph = << >>]

\* a variant of the operation below that keeps the paragraph
clear_after_testKeeping(hs) == hs

\* a variant of the operation below that forgets the headings as well
clear_after_testForgetting(hs) ==
    [headings |-> [l \in 1..MAX_HEADING_LEVEL |-> None], paragraph |-> << >>]

clear_after_test(hs) == [hs EXCEPT !.paragraph = << >>]

RECURSIVE StoredFromWithGaps(_, _)
\* a variant of the operator below that puts an empty part for an unset level
StoredFromWithGaps(headings, l) ==
    IF l > MAX_HEADING_LEVEL THEN << >>
    ELSE IF headings[l].some
         THEN << headings[l].val >> \o StoredFromWithGaps(headings, l + 1)
         ELSE IF \E m \in (l + 1)..MAX_HEADING_LEVEL : headings[m].some
              THEN << "" >> \o StoredFromWithGaps(headings, l + 1)
              ELSE StoredFromWithGaps(headings, l + 1)

RECURSIVE StoredFrom(_, _)
\* headings.iter().filter_map(|h| h.as_deref()), from level l on
StoredFrom(headings, l) ==
    IF l > MAX_HEADING_LEVEL THEN << >>
    ELSE IF headings[l].some
         THEN << headings[l].val >> \o StoredFrom(headings, l + 1)
         ELSE StoredFrom(headings, l + 1)

RECURSIVE ShallowestFrom(_, _)
\* a variant of the operator below that finds the outermost stored heading
ShallowestFrom(headings, l) ==
    IF l < 1 THEN ""
    ELSE LET outer == ShallowestFrom(headings, l - 1) IN
         IF outer # "" THEN outer
         ELSE IF headings[l].some THEN headings[l].val ELSE ""

RECURSIVE DeepestFrom(_, _)
\* headings.iter().rev().find_map(|h| h.clone()).unwrap_or_default()
DeepestFrom(headings, l) ==
    IF l < 1 THEN ""
    ELSE IF headings[l].some THEN headings[l].val
    ELSE DeepestFrom(headings, l - 1)

build_title(hs, use_composite, separator) ==
    IF use_composite
    THEN LET parts == StoredFrom(hs.headings, 1) IN
         IF hs.paragraph # << >>
         THEN LET paragraph_text == Join(hs.paragraph, "\n") IN
              IF parts = << >>
              THEN paragraph_text
              ELSE Join(parts, separator) \o separator \o paragraph_text
         ELSE Join(parts, separator)
    ELSE IF hs.paragraph # << >>
         THEN Join(hs.paragraph, "\n")
         ELSE DeepestFrom(hs.headings, MAX_HEADING_LEVEL)

---------------------------------------------------------------------------
(* MarkdownIterator: the tokenizer.  p counts the lines document_lines has  *)
(* handed out and li is line_index; the line read last is d[p].  A         *)
(* `next()?` past the end of d makes the whole call return None.  The      *)
(* three Next.. operators take p and li as they are before the opening     *)
(* line d[p + 1] is counted; the loops take them after their current line  *)
(* d[p] is counted.                                                        *)

RECURSIVE FrontMatterLoop(_, _, _, _)
\* while line != "---" { config_content.push(..); line = next()?; .. }
FrontMatterLoop(d, p, li, config_content) ==
    IF d[p] # "---"
    THEN IF p < Len(d)
         THEN FrontMatterLoop(d, p + 1, li + 1,
                              Append(config_content, << li - 1, d[p] >>))
         ELSE [closed |-> FALSE, pos |-> p, line_index |-> li]
    ELSE [closed |-> TRUE, pos |-> p, line_index |-> li,
          lines |-> config_content]

RECURSIVE VerbatimLoopClosedAtEnd(_, _, _, _, _)
\* a variant of the loop below that takes the end of the document for the
\* closing fence
VerbatimLoopClosedAtEnd(d, p, li, backticks, lines) ==
    IF ~StartsWith(d[p], backticks) /\ p < Len(d)
    THEN VerbatimLoopClosedAtEnd(d, p + 1, li + 1, backticks, Append(lines, d[p]))
    ELSE [closed |-> TRUE, pos |-> p, line_index |-> li,
          lines |-> Append(lines, d[p])]

RECURSIVE VerbatimLoop(_, _, _, _, _)
\* while !line.starts_with(backticks) { lines.push(line); line = next()?; .. }
VerbatimLoop(d, p, li, backticks, lines) ==
    IF ~StartsWith(d[p], backticks)
    THEN IF p < Len(d)
         THEN VerbatimLoop(d, p + 1, li + 1, backticks, Append(lines, d[p]))
         ELSE [closed |-> FALSE, pos |-> p, line_index |-> li]
    ELSE [closed |-> TRUE, pos |-> p, line_index |-> li,
          lines |-> Append(lines, d[p])]

RECURSIVE CommentLoopSingle(_, _, _, _)
\* a variant of the loop below that takes one comment line at most
CommentLoopSingle(d, p, li, comment_lines) ==
    IF is_comment(d[p]) /\ comment_lines = << >>
    THEN IF p < Len(d)
         THEN CommentLoopSingle(d, p + 1, li + 1,
                                Append(comment_lines, << li - 1, d[p] >>))
         ELSE [closed |-> FALSE, pos |-> p, line_index |-> li]
    ELSE [closed |-> TRUE, pos |-> p, line_index |-> li,
          lines |-> comment_lines]

RECURSIVE CommentLoop(_, _, _, _)
\* while is_comment(line) { comment_lines.push(..); line = next()?; .. }
CommentLoop(d, p, li, comment_lines) ==
    IF is_comment(d[p])
    THEN IF p < Len(d)
         THEN CommentLoop(d, p + 1, li + 1,
                          Append(comment_lines, << li - 1, d[p] >>))
         ELSE [closed |-> FALSE, pos |-> p, line_index |-> li]
    ELSE [closed |-> TRUE, pos |-> p, line_index |-> li,
          lines |-> comment_lines]

RECURSIVE CodeLoopTripleFence(_, _, _, _, _)
\* a variant of the loop below that closes the block at any line of three
\* backticks, whatever run opened it
CodeLoopTripleFence(d, p, li, backticks, code_lines) ==
    IF ~StartsWith(d[p], "'''")
    THEN IF p < Len(d)
         THEN CodeLoopTripleFence(d, p + 1, li + 1, backticks,
                                  Append(code_lines, << li - 1, d[p] >>))
         ELSE [closed |-> FALSE, pos |-> p, line_index |-> li]
    ELSE [closed |-> TRUE, pos |-> p, line_index |-> li,
          lines |-> code_lines]

RECURSIVE CodeLoop(_, _, _, _, _)
\* while !line.starts_with(backticks) { code_lines.push(..); line = next()?; .. }
CodeLoop(d, p, li, backticks, code_lines) ==
    IF ~StartsWith(d[p], backticks)
    THEN IF p < Len(d)
         THEN CodeLoop(d, p + 1, li + 1, backticks,
                       Append(code_lines, << li - 1, d[p] >>))
         ELSE [closed |-> FALSE, pos |-> p, line_index |-> li]
    ELSE [closed |-> TRUE, pos |-> p, line_index |-> li,
          lines |-> code_lines]

\* a variant of the operator below that numbers the fragment with
\* line_index, not line_index - 1
InlineConfigOneBased(config_text, li) ==
    IF /\ StartsWith(config_text, "{")
       /\ EndsWith(SubSeq(config_text, 2, Len(config_text)), "}")
       /\ Len(config_text) > 2
    THEN << << li, SubSeq(config_text, 2, Len(config_text) - 1) >> >>
    ELSE << >>

\* config.strip_prefix('{').and_then(strip_suffix('}')).and_then(non-empty)
InlineConfig(config_text, li) ==
    IF /\ StartsWith(config_text, "{")
       /\ EndsWith(SubSeq(config_text, 2, Len(config_text)), "}")
       /\ Len(config_text) > 2
    THEN << << li - 1, SubSeq(config_text, 2, Len(config_text) - 1) >> >>
    ELSE << >>

\* what one call of next() gives: the token (None when the iterator ends) and
\* the iterator's fields after the call
Yield(token, p, li, cs) ==
    [token |-> token, pos |-> p, line_index |-> li, content_start |-> cs]

\* a variant of the test below that takes every tagged block for a test block
IsTestLanguageAnyTag(langs, language) == language # ""

UpperCase == "ABCDEFGHIJKLMNOPQRSTUVWXYZ"
LowerCase == "abcdefghijklmnopqrstuvwxyz"

RECURSIVE ToLower(_)
ToLower(s) ==
    IF s = "" THEN ""
    ELSE LET c  == Char(s, 1)
             at == { i \in 1..Len(UpperCase) : Char(UpperCase, i) = c }
         IN  (IF at = {} THEN c ELSE Char(LowerCase, CHOOSE i \in at : TRUE))
                 \o ToLower(Tail(s))

\* a variant of the test below that compares tags without regard to case
IsTestLanguageIgnoringCase(langs, language) ==
    \E l \in langs : ToLower(l) = ToLower(language)

\* self.languages.contains(&language)
IsTestLanguage(langs, language) == language \in langs

\* a variant of the operator below that gives the lines after an opening `---`
\* as front matter when the document ends before the closing `---`
NextFrontMatterOpenEnded(d, p, li, cs) ==
    IF \E j \in (p + 2)..Len(d) : d[j] = "---"
    THEN LET r == FrontMatterLoop(d, p + 2, li + 2, << >>) IN
         Yield(Some([kind |-> "DocumentConfig", lines |-> r.lines]),
               r.pos, r.line_index, cs)
    ELSE Yield(Some([kind  |-> "DocumentConfig",
                     lines |-> [i \in 1..(Len(d) - p - 1) |->
                                    << li + i, d[p + 1 + i] >>]]),
               Len(d), li + Len(d) - p, cs)

NextFrontMatter(d, p, li, cs) ==
    IF p + 1 >= Len(d)
    THEN Yield(None, p + 1, li + 1, cs)
    ELSE LET r == FrontMatterLoop(d, p + 2, li + 2, << >>) IN
         IF r.closed
         THEN Yield(Some([kind |-> "DocumentConfig", lines |-> r.lines]),
                    r.pos, r.line_index, cs)
         ELSE Yield(None, r.pos, r.line_index, cs)

NextVerbatim(d, p, li, start) ==
    LET starting_line_number == li
        first == << d[p + 1] >>
    IN  IF p + 1 >= Len(d)
        THEN Yield(None, p + 1, li + 1, TRUE)
        ELSE LET r == VerbatimLoop(d, p + 2, li + 2, start.backticks, first) IN
             IF r.closed
             THEN Yield(Some([kind |-> "VerbatimCodeBlock",
                              starting_line_number |-> starting_line_number,
                              language |-> start.language,
                              lines |-> r.lines]),
                        r.pos, r.line_index, TRUE)
             ELSE Yield(None, r.pos, r.line_index, TRUE)

NextTest(d, p, li, start) ==
    LET config_lines == InlineConfig(start.config, li + 1) IN
    IF p + 1 >= Len(d)
    THEN Yield(None, p + 1, li + 1, TRUE)
    ELSE LET c == CommentLoop(d, p + 2, li + 2, << >>) IN
         IF ~c.closed
         THEN Yield(None, c.pos, c.line_index, TRUE)
         ELSE LET r == CodeLoop(d, c.pos, c.line_index, start.backticks, << >>) IN
              IF r.closed
              THEN Yield(Some([kind |-> "TestCodeBlock",
                               language |-> start.language,
                               config_lines |-> config_lines,
                               comment_lines |-> c.lines,
                               code_lines |-> r.lines]),
                         r.pos, r.line_index, TRUE)
              ELSE Yield(None, r.pos, r.line_index, TRUE)

\* a variant of the operator below in which a plain line never sets
\* content_start
ContentSeenNever(cs, line) == cs

\* if !line.trim().is_empty() { self.content_start = true; }
ContentSeen(cs, line) == cs \/ Trim(line) # ""

\* a variant of the operator below that gives a plain line without taking
\* it from the line source
IterNextPeeking(d, langs, p, li, cs) ==
    IF p >= Len(d)
    THEN Yield(None, p, li, cs)
    ELSE LET line  == d[p + 1]
             start == extract_code_block_start(line)
         IN  IF ~cs /\ line = "---"
             THEN NextFrontMatter(d, p, li, cs)
             ELSE IF start.some
                  THEN IF ~IsTestLanguage(langs, start.val.language)
                       THEN NextVerbatim(d, p, li, start.val)
                       ELSE NextTest(d, p, li, start.val)
                  ELSE Yield(Some([kind |-> "Line", index |-> li, line |-> line]),
                             p, li, ContentSeen(cs, line))

\* a variant of the operator below that takes a --- line for the start of
\* front matter wherever it stands
IterNextFrontMatterAnywhere(d, langs, p, li, cs) ==
    IF p >= Len(d)
    THEN Yield(None, p, li, cs)
    ELSE LET line  == d[p + 1]
             start == extract_code_block_start(line)
         IN  IF line = "---"
             THEN NextFrontMatter(d, p, li, cs)
             ELSE IF start.some
                  THEN IF ~IsTestLanguage(langs, start.val.language)
                       THEN NextVerbatim(d, p, li, start.val)
                       ELSE NextTest(d, p, li, start.val)
                  ELSE Yield(Some([kind |-> "Line", index |-> li, line |-> line]),
                             p + 1, li + 1, ContentSeen(cs, line))

\* MarkdownIterator::next on document d with p lines already handed out
IterNext(d, langs, p, li, cs) ==
    IF p >= Len(d)
    THEN Yield(None, p, li, cs)
    ELSE LET line  == d[p + 1]
             start == extract_code_block_start(line)
         IN  IF ~cs /\ line = "---"
             THEN NextFrontMatter(d, p, li, cs)
             ELSE IF start.some
                  THEN IF ~IsTestLanguage(langs, start.val.language)
                       THEN NextVerbatim(d, p, li, start.val)
                       ELSE NextTest(d, p, li, start.val)
                  ELSE Yield(Some([kind |-> "Line", index |-> li, line |-> line]),
                             p + 1, li + 1, ContentSeen(cs, line))

---------------------------------------------------------------------------
(* Configuration: crate::config and the YAML reader.  A fragment is a list *)
(* of `key: value` entries, one per line in front matter, separated by     *)
(* ", " in an inline annotation.                                           *)

RECURSIVE Split(_, _)
Split(text, sep) ==
    LET at == { i \in 1..(Len(text) - Len(sep) + 1) :
                    SubSeq(text, i, i + Len(sep) - 1) = sep }
    IN  IF at = {}
        THEN << text >>
        ELSE LET i == CHOOSE j \in at : \A k \in at : j <= k IN
             << SubSeq(text, 1, i - 1) >>
                 \o Split(SubSeq(text, i + Len(sep), Len(text)), sep)

TestCaseConfigEmpty == [timeout |-> None, wait |-> None]

\* TestCaseConfig::default_markdown
TestCaseConfigDefaultMarkdown == [timeout |-> Some("15m"), wait |-> None]

DocumentConfigEmpty ==
    [composite_test_names          |-> None,
     composite_test_name_separator |-> None,
     defaults                      |-> TestCaseConfigEmpty]

\* DocumentConfig::default_markdown
DocumentConfigDefaultMarkdown == DocumentConfigEmpty

\* TestCaseConfig::with_defaults_from: a field of self wins when it is set
TestCaseWithDefaultsFrom(self, defaults) ==
    [f \in DOMAIN self |-> IF self[f].some THEN self[f] ELSE defaults[f]]

\* DocumentConfig::with_overrides_from: a field of overrides wins when it is set
DocumentWithOverridesFrom(self, overrides) ==
    [composite_test_names |->
        IF overrides.composite_test_names.some
        THEN overrides.composite_test_names ELSE self.composite_test_names,
     composite_test_name_separator |->
        IF overrides.composite_test_name_separator.some
        THEN overrides.composite_test_name_separator
        ELSE self.composite_test_name_separator,
     defaults |-> TestCaseWithDefaultsFrom(overrides.defaults, self.defaults)]

use_composite_test_names(c) ==
    IF c.composite_test_names.some THEN c.composite_test_names.val ELSE FALSE

get_composite_test_name_separator(c) ==
    IF c.composite_test_name_separator.some
    THEN c.composite_test_name_separator.val ELSE " > "

\* the entries the YAML reader accepts for a DocumentConfig
DocumentEntry(cfg, entry) ==
    CASE entry = "composite_test_names: true" ->
            Some([cfg EXCEPT !.composite_test_names = Some(TRUE)])
      [] entry = "composite_test_names: false" ->
            Some([cfg EXCEPT !.composite_test_names = Some(FALSE)])
      [] entry = "composite_test_name_separator: /" ->
            Some([cfg EXCEPT !.composite_test_name_separator = Some(" / ")])
      [] entry = "defaults: {timeout: 3m}" ->
            Some([cfg EXCEPT !.defaults.timeout = Some("3m")])
      [] OTHER -> None

\* the entries the YAML reader accepts for a TestCaseConfig
TestCaseEntry(cfg, entry) ==
    CASE entry = "timeout: 3m" -> Some([cfg EXCEPT !.timeout = Some("3m")])
      [] entry = "timeout: 5m" -> Some([cfg EXCEPT !.timeout = Some("5m")])
      [] entry = "wait: 4m"    -> Some([cfg EXCEPT !.wait = Some("4m")])
      [] OTHER -> None

RECURSIVE ReadDocumentEntries(_, _)
ReadDocumentEntries(cfg, entries) ==
    IF entries = << >> THEN Some(cfg)
    ELSE LET r == DocumentEntry(cfg, Head(entries)) IN
         IF r.some THEN ReadDocumentEntries(r.val, Tail(entries)) ELSE None

RECURSIVE ReadTestCaseEntries(_, _)
ReadTestCaseEntries(cfg, entries) ==
    IF entries = << >> THEN Some(cfg)
    ELSE LET r == TestCaseEntry(cfg, Head(entries)) IN
         IF r.some THEN ReadTestCaseEntries(r.val, Tail(entries)) ELSE None

\* serde_yaml::from_str::<DocumentConfig>: None stands for Err
DocumentConfigFromStr(text) ==
    IF text = "" THEN None
    ELSE ReadDocumentEntries(DocumentConfigEmpty, Split(text, "\n"))

\* serde_yaml::from_str::<TestCaseConfig> of a flow mapping "{..}"
TestCaseConfigFromStr(text) ==
    IF ~(StartsWith(text, "{") /\ EndsWith(text, "}") /\ Len(text) >= 2)
    THEN None
    ELSE IF Len(text) = 2
         THEN Some(TestCaseConfigEmpty)
         ELSE ReadTestCaseEntries(TestCaseConfigEmpty,
                                  Split(SubSeq(text, 2, Len(text) - 1), ", "))

---------------------------------------------------------------------------
(* LineParser: the body accumulator *)

LineParserNew ==
    [title            |-> "",
     config           |-> TestCaseConfigEmpty,
     shell_expression |-> << >>,
     expectations     |-> << >>,
     line_number      |-> 0,
     testcases        |-> << >>]

set_testcase_title(lp, title) == [lp EXCEPT !.title = title]

set_testcase_config(lp, cfg) == [lp EXCEPT !.config = cfg]

\* a command line, a continuation of the command, or an expected-output
\* line; None stands for Err: output before any command
add_testcase_body(lp, line, index) ==
    IF lp.shell_expression = << >>
    THEN IF StartsWith(line, "$ ")
         THEN Some([lp EXCEPT !.shell_expression = << SubSeq(line, 3, Len(line)) >>,
                              !.line_number = index + 1])
         ELSE None
    ELSE IF lp.expectations = << >> /\ StartsWith(line, "> ")
         THEN Some([lp EXCEPT !.shell_expression =
                                  Append(@, SubSeq(line, 3, Len(line)))])
         ELSE Some([lp EXCEPT !.expectations = Append(@, line)])

\* one TestCase, or None for Err when no command line was ever supplied
end_testcase(lp, index) ==
    IF lp.shell_expression = << >>
    THEN None
    ELSE Some([lp EXCEPT
            !.testcases = Append(@, [title            |-> lp.title,
                                     shell_expression |-> Join(lp.shell_expression, "\n"),
                                     expectations     |-> lp.expectations,
                                     line_number      |-> lp.line_number,
                                     config           |-> lp.config]),
            !.shell_expression = << >>,
            !.expectations = << >>])

---------------------------------------------------------------------------
(* MarkdownParser::parse: one arm per token.  ps is the parse's local      *)
(* state: heading_stack, config, has_title_since_break, line_parser, and   *)
(* outcome, which stays Running until parse returns or panics.             *)

DEFAULT_MARKDOWN_LANGUAGES == { "scrut" }

\* MarkdownParser::new(.., None): base_testcase_config
base_testcase_config == TestCaseConfigDefaultMarkdown

Running == [kind |-> "Running"]
Ok(cfg, testcases) == [kind |-> "Ok", config |-> cfg, testcases |-> testcases]
Err(error) == [kind |-> "Err", error |-> error]
Panic == [kind |-> "Panic"]

MissingLanguageSpecifier(line) ==
    [type |-> "MissingLanguageSpecifier", line |-> line]
ConfigParseError(context) == [type |-> "ConfigParseError", context |-> context]
BodyStructureError == [type |-> "BodyStructureError"]

ParseStart ==
    [heading_stack         |-> HeadingStackDefault,
     config                |-> DocumentConfigDefaultMarkdown,
     has_title_since_break |-> FALSE,
     line_parser           |-> LineParserNew,
     outcome               |-> Running]

\* a variant of the arm below that refuses front matter once the running
\* configuration has been overridden
DocumentConfigArmOnce(ps, config_lines) ==
    LET parsed_config == DocumentConfigFromStr(join_newline(config_lines)) IN
    IF parsed_config.some /\ ps.config = DocumentConfigDefaultMarkdown
    THEN [ps EXCEPT !.config = DocumentWithOverridesFrom(@, parsed_config.val)]
    ELSE [ps EXCEPT !.outcome =
            Err(ConfigParseError("parse document config from front-matter"))]

DocumentConfigArm(ps, config_lines) ==
    LET parsed_config == DocumentConfigFromStr(join_newline(config_lines)) IN
    IF parsed_config.some
    THEN [ps EXCEPT !.config = DocumentWithOverridesFrom(@, parsed_config.val)]
    ELSE [ps EXCEPT !.outcome =
            Err(ConfigParseError("parse document config from front-matter"))]

\* a variant of the arm below in which a line that is not title content
\* recomputes the title after clearing the paragraph
LineArmRecomputing(ps, line) ==
    LET t == extract_title(line) IN
    IF t.some
    THEN LET hs == IF t.val.level > 0
                   THEN set_heading(ps.heading_stack, t.val.level, t.val.title)
                   ELSE add_paragraph(ps.heading_stack, t.val.title)
             composite_title ==
                   build_title(hs, use_composite_test_names(ps.config),
                               get_composite_test_name_separator(ps.config))
         IN  [ps EXCEPT !.heading_stack = hs,
                        !.has_title_since_break = TRUE,
                        !.line_parser = set_testcase_title(@, composite_title)]
    ELSE IF ps.has_title_since_break
         THEN [ps EXCEPT !.heading_stack = clear_paragraph(@),
                         !.has_title_since_break = FALSE,
                         !.line_parser = set_testcase_title(@,
                              build_title(clear_paragraph(ps.heading_stack),
                                  use_composite_test_names(ps.config),
                                  get_composite_test_name_separator(ps.config)))]
         ELSE ps

LineArm(ps, line) ==
    LET t == extract_title(line) IN
    IF t.some
    THEN LET hs == IF t.val.level > 0
                   THEN set_heading(ps.heading_stack, t.val.level, t.val.title)
                   ELSE add_paragraph(ps.heading_stack, t.val.title)
             composite_title ==
                   build_title(hs, use_composite_test_names(ps.config),
                               get_composite_test_name_separator(ps.config))
         IN  [ps EXCEPT !.heading_stack = hs,
                        !.has_title_since_break = TRUE,
                        !.line_parser = set_testcase_title(@, composite_title)]
    ELSE IF ps.has_title_since_break
         THEN [ps EXCEPT !.heading_stack = clear_paragraph(@),
                         !.has_title_since_break = FALSE]
         ELSE ps

\* a variant of the arm below that lets a block without a language pass
VerbatimCodeBlockArmLenient(ps, starting_line_number, language) == ps

\* a variant of the arm below in which a skipped block ends the paragraph
VerbatimCodeBlockArmClearing(ps, starting_line_number, language) ==
    IF language = ""
    THEN [ps EXCEPT !.outcome =
            Err(MissingLanguageSpecifier(starting_line_number))]
    ELSE [ps EXCEPT !.heading_stack = clear_paragraph(@),
                    !.has_title_since_break = FALSE]

VerbatimCodeBlockArm(ps, starting_line_number, language) ==
    IF language = ""
    THEN [ps EXCEPT !.outcome =
            Err(MissingLanguageSpecifier(starting_line_number))]
    ELSE ps

RECURSIVE AddBody(_, _)
\* for (index, line) in &code_lines { line_parser.add_testcase_body(..)? }
AddBody(lp, code_lines) ==
    IF code_lines = << >> THEN Some(lp)
    ELSE LET r == add_testcase_body(lp, Head(code_lines)[2], Head(code_lines)[1]) IN
         IF r.some THEN AddBody(r.val, Tail(code_lines)) ELSE None

\* a variant of the merge below in which the base configuration wins
MergedConfigBaseFirst(parsed_config, cfg) ==
    TestCaseWithDefaultsFrom(
        TestCaseWithDefaultsFrom(base_testcase_config, cfg.defaults),
        parsed_config)

\* parsed_config.with_defaults_from(&config.defaults)
\*              .with_defaults_from(&self.base_testcase_config)
MergedConfig(parsed_config, cfg) ==
    TestCaseWithDefaultsFrom(
        TestCaseWithDefaultsFrom(parsed_config, cfg.defaults),
        base_testcase_config)

TestCodeBlockArm(ps, config_lines, code_lines) ==
    LET parsed_config ==
            IF config_lines = << >>
            THEN Some(TestCaseConfigEmpty)
            ELSE TestCaseConfigFromStr("{" \o join_newline(config_lines) \o "}")
    IN
    IF ~parsed_config.some
    THEN [ps EXCEPT !.outcome = Err(ConfigParseError("parse testcase config"))]
    ELSE
    LET merged == MergedConfig(parsed_config.val, ps.config)
        lp1   == set_testcase_config(ps.line_parser, merged)
        body   == AddBody(lp1, code_lines)
    IN
    IF ~body.some
    THEN [ps EXCEPT !.line_parser = lp1, !.outcome = Err(BodyStructureError)]
    ELSE IF Len(code_lines) = 0
    THEN \* code_lines[code_lines.len() - 1] of an empty Vec
         [ps EXCEPT !.line_parser = body.val, !.outcome = Panic]
    ELSE
    LET ended == end_testcase(body.val, code_lines[Len(code_lines)][1]) IN
    IF ~ended.some
    THEN [ps EXCEPT !.line_parser = body.val, !.outcome = Err(BodyStructureError)]
    ELSE [ps EXCEPT !.line_parser = ended.val,
                    !.heading_stack = clear_after_test(@),
                    !.has_title_since_break = FALSE]

RECURSIVE LinesArm(_, _)
LinesArm(ps, lines) ==
    IF lines = << >> THEN ps
    ELSE LinesArm(LineArm(ps, Head(lines)), Tail(lines))

\* a variant of the match below that reads the body of a verbatim block as
\* plain lines before it handles the block
HandleReadingVerbatim(ps, token) ==
    CASE token.kind = "DocumentConfig" -> DocumentConfigArm(ps, token.lines)
      [] token.kind = "Line" -> LineArm(ps, token.line)
      [] token.kind = "VerbatimCodeBlock" ->
            VerbatimCodeBlockArm(
                LinesArm(ps, SubSeq(token.lines, 2, Len(token.lines) - 1)),
                token.starting_line_number, token.language)
      [] token.kind = "TestCodeBlock" ->
            TestCodeBlockArm(ps, token.config_lines, token.code_lines)

\* match token { .. }
Handle(ps, token) ==
    CASE token.kind = "DocumentConfig" -> DocumentConfigArm(ps, token.lines)
      [] token.kind = "Line" -> LineArm(ps, token.line)
      [] token.kind = "VerbatimCodeBlock" ->
            VerbatimCodeBlockArm(ps, token.starting_line_number, token.language)
      [] token.kind = "TestCodeBlock" ->
            TestCodeBlockArm(ps, token.config_lines, token.code_lines)

RECURSIVE ParseLoop(_, _, _, _, _, _)
\* for token in iterator { .. }; Ok((config, line_parser.testcases.clone()))
ParseLoop(d, langs, p, li, cs, ps) ==
    IF ps.outcome # Running THEN ps.outcome
    ELSE LET y == IterNext(d, langs, p, li, cs) IN
         IF y.token.some
         THEN ParseLoop(d, langs, y.pos, y.line_index, y.content_start,
                        Handle(ps, y.token.val))
         ELSE Ok(ps.config, ps.line_parser.testcases)

\* MarkdownParser::parse as a function of the document
parse(d, langs) == ParseLoop(d, langs, 0, 0, FALSE, ParseStart)

---------------------------------------------------------------------------
(* The state machine: one step is one turn of parse's loop, the call of    *)
(* next() together with the arm that handles the token.                    *)

MaxLines == 4

\* the documents of at most n lines over a set of lines
DocsOver(lines, n) == UNION { [1..k -> lines] : k \in 0..n }

InitWith(docs, langsets) ==
    /\ doc \in docs
    /\ languages \in langsets
    /\ pos = 0
    /\ line_index = 0
    /\ content_start = FALSE
    /\ heading_stack = ParseStart.heading_stack
    /\ config = ParseStart.config
    /\ has_title_since_break = ParseStart.has_title_since_break
    /\ line_parser = ParseStart.line_parser
    /\ outcome = ParseStart.outcome
    /\ calls = << >>

\* what the next call of next() gives
Tok == IterNext(doc, languages, pos, line_index, content_start)

Locals ==
    [heading_stack         |-> heading_stack,
     config                |-> config,
     has_title_since_break |-> has_title_since_break,
     line_parser           |-> line_parser,
     outcome               |-> outcome]

\* the iterator after the call that gave y
Advance(y) ==
    /\ pos' = y.pos
    /\ line_index' = y.line_index
    /\ content_start' = y.content_start
    /\ calls' = Append(calls, [first |-> pos + 1, last |-> y.pos, token |-> y.token,
                                before |-> Locals])
    /\ UNCHANGED << doc, languages >>

Become(ps) ==
    /\ heading_stack' = ps.heading_stack
    /\ config' = ps.config
    /\ has_title_since_break' = ps.has_title_since_break
    /\ line_parser' = ps.line_parser
    /\ outcome' = ps.outcome

Yields(y, kind) == y.token.some /\ y.token.val.kind = kind

OnDocumentConfig ==
    /\ outcome = Running
    /\ LET y == Tok IN
       /\ Yields(y, "DocumentConfig")
       /\ Advance(y)
       /\ Become(Handle(Locals, y.token.val))

OnLine ==
    /\ outcome = Running
    /\ LET y == Tok IN
       /\ Yields(y, "Line")
       /\ Advance(y)
       /\ Become(Handle(Locals, y.token.val))

OnVerbatimCodeBlock ==
    /\ outcome = Running
    /\ LET y == Tok IN
       /\ Yields(y, "VerbatimCodeBlock")
       /\ Advance(y)
       /\ Become(Handle(Locals, y.token.val))

OnTestCodeBlock ==
    /\ outcome = Running
    /\ LET y == Tok IN
       /\ Yields(y, "TestCodeBlock")
       /\ Advance(y)
       /\ Become(Handle(Locals, y.token.val))

\* next() returns None: the loop ends and parse returns Ok
OnEnd ==
    /\ outcome = Running
    /\ LET y == Tok IN
       /\ ~y.token.some
       /\ Advance(y)
       /\ outcome' = Ok(config, line_parser.testcases)
       /\ UNCHANGED << heading_stack, config, has_title_since_break, line_parser >>

Next ==
    \/ OnDocumentConfig
    \/ OnLine
    \/ OnVerbatimCodeBlock
    \/ OnTestCodeBlock
    \/ OnEnd

\* documents of fences, block bodies and titles
FenceLines ==
    { "'''", "''''", "'''scrut", "''''text", "'''Scrut",
      "$ c", "o", "# h", "", "---" }

\* the language sets a parser is built with
LanguageSets == { DEFAULT_MARKDOWN_LANGUAGES, { "scrut", "text" } }

Init == InitWith(DocsOver(FenceLines, MaxLines), LanguageSets)

Spec == Init /\ [][Next]_vars

\* documents that begin with front matter
MaxFrontLines == 5

FrontLines ==
    { "---", "composite_test_names: true", "", "T", "'''scrut", "$ c", "'''" }

InitFront ==
    InitWith(DocsOver(FrontLines, MaxFrontLines), { DEFAULT_MARKDOWN_LANGUAGES })

SpecFront == InitFront /\ [][Next]_vars

\* documents of several whole blocks
MaxBlockLines == 6

BlockLines == { "'''scrut", "$ c", "'''", "'''text", "---" }

InitBlocks ==
    InitWith(DocsOver(BlockLines, MaxBlockLines), { DEFAULT_MARKDOWN_LANGUAGES })

SpecBlocks == InitBlocks /\ [][Next]_vars

---------------------------------------------------------------------------
(* What the claims speak of, read off the document and the history.       *)

Done == outcome # Running

\* the calls of next() that gave a token of one of the kinds
Gave(c, kinds) == c.token.some /\ c.token.val.kind \in kinds

IsBlock(c) == Gave(c, { "TestCodeBlock", "VerbatimCodeBlock" })

\* the call began on a line of the document (not past its end)
Began(c) == c.first <= Len(doc)

\* the opening line of the call, as the fence classifier sees it
Opening(c) == extract_code_block_start(doc[c.first])

Marker(c) == Opening(c).val.backticks

RECURSIVE BacktickRun(_)
BacktickRun(line) ==
    IF Len(line) > 0 /\ Char(line, 1) = BACKTICK
    THEN 1 + BacktickRun(Tail(line))
    ELSE 0

Texts(numbered) == [i \in 1..Len(numbered) |-> numbered[i][2]]

\* the lines a block token holds between its fences
BodyOf(token) ==
    IF token.kind = "VerbatimCodeBlock"
    THEN SubSeq(token.lines, 2, Len(token.lines) - 1)
    ELSE Texts(token.comment_lines) \o Texts(token.code_lines)

---------------------------------------------------------------------------
(* C1.  Nesting: a block opened with a marker of n backticks reaches from  *)
(* its opening line to the first later line that starts with that marker;  *)
(* every line between the two is in the block's body as it stands in the   *)
(* document, and a line whose backtick run is shorter than n is among      *)
(* them: it never closes the block.                                        *)
C1_ClosedOnlyByMarker ==
    \A i \in 1..Len(calls) :
        LET c == calls[i] IN
        IsBlock(c) =>
            /\ c.first < c.last
            /\ Len(Marker(c)) = BacktickRun(doc[c.first])
            /\ StartsWith(doc[c.last], Marker(c))
            /\ \A j \in (c.first + 1)..(c.last - 1) :
                    ~StartsWith(doc[j], Marker(c))
            /\ BodyOf(c.token.val) = SubSeq(doc, c.first + 1, c.last - 1)
            /\ \A j \in (c.first + 1)..c.last :
                    BacktickRun(doc[j]) < Len(Marker(c)) =>
                        /\ j < c.last
                        /\ BodyOf(c.token.val)[j - c.first] = doc[j]

\* a test block opened with four backticks holds a line of three in its body
C1_Witness ==
    \E i \in 1..Len(calls) :
        /\ Gave(calls[i], { "TestCodeBlock" })
        /\ Len(Marker(calls[i])) = 4
        /\ \E k \in 1..Len(calls[i].token.val.code_lines) :
                calls[i].token.val.code_lines[k][2] = "'''"
        /\ Len(line_parser.testcases) = 1
        /\ line_parser.testcases[1].expectations = << "'''" >>

\* the same for a verbatim block
C1_WitnessVerbatim ==
    \E i \in 1..Len(calls) :
        /\ Gave(calls[i], { "VerbatimCodeBlock" })
        /\ Len(Marker(calls[i])) = 4
        /\ \E k \in 2..(Len(calls[i].token.val.lines) - 1) :
                calls[i].token.val.lines[k] = "'''"


\* the parse failed with MissingLanguageSpecifier
MissingLanguage ==
    /\ outcome.kind = "Err"
    /\ outcome.error.type = "MissingLanguageSpecifier"
    /\ DOMAIN outcome = { "kind", "error" }

\* the call began on an opening fence whose language tag is empty
OpensUntagged(c) ==
    /\ Began(c)
    /\ Opening(c).some
    /\ Opening(c).val.language = ""

\* a later line of the document starts with the marker of the call's fence
ClosedLater(c) ==
    \E j \in (c.first + 1)..Len(doc) : StartsWith(doc[j], Marker(c))

---------------------------------------------------------------------------
(* C2, as amended.  When the tokenizer comes to an opening fence with an   *)
(* empty language tag and a later line closes the block, parse fails with  *)
(* MissingLanguageSpecifier, there and then: the call that read the block  *)
(* is the last one, and what parse returns holds neither a configuration   *)
(* nor test cases.                                                         *)
C2_ClosedUntaggedBlockFails ==
    \A i \in 1..Len(calls) :
        (OpensUntagged(calls[i]) /\ ClosedLater(calls[i])) =>
            /\ i = Len(calls)
            /\ MissingLanguage

\* an untagged block after a title was already pushed
C2_Witness ==
    /\ Len(calls) >= 2
    /\ OpensUntagged(calls[Len(calls)])
    /\ line_parser.title # ""
    /\ MissingLanguage

(* C2, as claimed: every document in which the tokenizer comes to an       *)
(* opening fence with an empty language tag fails with                     *)
(* MissingLanguageSpecifier.                                               *)
C2_AnyUntaggedOpeningFails ==
    Done => \A i \in 1..Len(calls) : OpensUntagged(calls[i]) => MissingLanguage

---------------------------------------------------------------------------
(* C3.  The line a MissingLanguageSpecifier error carries is the 1-based   *)
(* line number of the opening fence: its 0-based index plus one.           *)
C3_LineIsOneBased ==
    MissingLanguage =>
        outcome.error.line = (calls[Len(calls)].first - 1) + 1


---------------------------------------------------------------------------
(* C4.  A `---` line on which a call of next() begins starts a front-      *)
(* matter block only if no call before it gave a non-blank plain line or   *)
(* read a fence opening; once one did, every later call that begins on a   *)
(* `---` line gives that line as a plain line, and no FrontMatter token is *)
(* given again.                                                            *)

\* call i gave a non-blank plain line or began on a fence opening
ShowsContent(i) ==
    \/ Gave(calls[i], { "Line" }) /\ Trim(calls[i].token.val.line) # ""
    \/ Began(calls[i]) /\ Opening(calls[i]).some

ContentBefore(i) == \E j \in 1..(i - 1) : ShowsContent(j)

C4_FrontMatterOnlyBeforeContent ==
    \A i \in 1..Len(calls) :
        LET c == calls[i] IN
        /\ Gave(c, { "DocumentConfig" }) =>
                doc[c.first] = "---" /\ ~ContentBefore(i)
        /\ (Began(c) /\ doc[c.first] = "---" /\ ContentBefore(i)) =>
                c.token = Some([kind |-> "Line", index |-> c.first - 1,
                                line |-> "---"])
        /\ ContentBefore(i) => ~Gave(c, { "DocumentConfig" })

\* a `---` pair after a title line comes out as two plain lines
C4_Witness ==
    \E i, j \in 1..Len(calls) :
        /\ i < j
        /\ ContentBefore(i)
        /\ Gave(calls[i], { "Line" }) /\ calls[i].token.val.line = "---"
        /\ Gave(calls[j], { "Line" }) /\ calls[j].token.val.line = "---"

---------------------------------------------------------------------------
(* C5.  For every document the tokenizer gives at most one FrontMatter     *)
(* token during a parse.                                                   *)
C5_AtMostOneFrontMatter ==
    Cardinality({ i \in 1..Len(calls) : Gave(calls[i], { "DocumentConfig" }) }) <= 1


---------------------------------------------------------------------------
(* C6.  When the document ends before the closing `---` of a front-matter  *)
(* block or before the closing fence of a test or verbatim block, the call *)
(* of next() that began the block gives no token and is the last call;     *)
(* parse returns Ok with the configuration and the test cases it had       *)
(* before that call, which are those of parsing the document cut off       *)
(* before the unterminated block.                                          *)

\* call i began a front-matter block
OpensFrontMatter(i) ==
    /\ Began(calls[i])
    /\ doc[calls[i].first] = "---"
    /\ ~ContentBefore(i)

\* call i began a block that no later line of the document closes
Unterminated(i) ==
    LET c == calls[i] IN
    \/ /\ OpensFrontMatter(i)
       /\ \A j \in (c.first + 1)..Len(doc) : doc[j] # "---"
    \/ /\ Began(c)
       /\ ~OpensFrontMatter(i)
       /\ Opening(c).some
       /\ ~ClosedLater(c)

C6_TruncationIsNotAnError ==
    \A i \in 1..Len(calls) :
        Unterminated(i) =>
            /\ ~calls[i].token.some
            /\ i = Len(calls)
            /\ outcome = Ok(config, line_parser.testcases)
            /\ outcome = parse(SubSeq(doc, 1, calls[i].first - 1), languages)

\* a test case, then a fence that is never closed
C6_Witness ==
    /\ Len(calls) >= 2
    /\ Unterminated(Len(calls))
    /\ Opening(calls[Len(calls)]).some
    /\ outcome.kind = "Ok"
    /\ Len(outcome.testcases) = 1

\* a front-matter block that is never closed
C6_WitnessFrontMatter ==
    /\ Len(calls) >= 1
    /\ Unterminated(Len(calls))
    /\ OpensFrontMatter(Len(calls))
    /\ calls[Len(calls)].last > calls[Len(calls)].first
    /\ outcome.kind = "Ok"

---------------------------------------------------------------------------
(* C7.  A document has no fenced block when no call of next() began on a   *)
(* fence opening, and a front-matter block when two of its lines are `---` *)
(* and only blank lines stand before the first of them.                    *)

NoFencedBlock ==
    \A i \in 1..Len(calls) : ~(Began(calls[i]) /\ Opening(calls[i]).some)

HasFrontMatterBlock(d) ==
    \E i, j \in 1..Len(d) :
        /\ i < j
        /\ d[i] = "---"
        /\ d[j] = "---"
        /\ \A k \in 1..(i - 1) : Trim(d[k]) = ""

(* C7, as amended.  For any document with no fenced block and no           *)
(* front-matter block, parse succeeds with zero test cases and a           *)
(* DocumentConfig equal to the format defaults; with a front-matter block  *)
(* and no fenced block, parse fails on the front matter or succeeds with   *)
(* zero test cases.                                                        *)
C7_NoBlocksGivesDefaults ==
    (Done /\ NoFencedBlock) =>
        /\ ~HasFrontMatterBlock(doc) =>
                outcome = Ok(DocumentConfigDefaultMarkdown, << >>)
        /\ outcome.kind = "Ok" => outcome.testcases = << >>
        /\ outcome.kind = "Err" => outcome.error.type = "ConfigParseError"

\* a parse of title lines and a stray `---`, with no block of either kind
C7_Witness ==
    /\ Done
    /\ NoFencedBlock
    /\ ~HasFrontMatterBlock(doc)
    /\ Len(calls) >= 4
    /\ line_parser.title # ""
    /\ \E i \in 1..Len(doc) : doc[i] = "---"

(* C7, as claimed: for any document with no fenced block, parse succeeds   *)
(* with zero test cases and a DocumentConfig equal to the format defaults. *)
C7_NoFenceGivesDefaults ==
    (Done /\ NoFencedBlock) =>
        outcome = Ok(DocumentConfigDefaultMarkdown, << >>)

---------------------------------------------------------------------------
(* C8.  On a successful parse the list returned holds exactly one test     *)
(* case per fully-formed test block, in document order: the k-th test case *)
(* carries the command that opens the body of the k-th block whose tag is  *)
(* in the language set, and its line number lies inside that block.        *)
(* Blocks with any other tag contribute none.                              *)

\* the calls that read a whole block whose tag is a test language
TestBlockCalls ==
    { i \in 1..Len(calls) :
        /\ calls[i].token.some
        /\ Began(calls[i])
        /\ Opening(calls[i]).some
        /\ Opening(calls[i]).val.language \in languages }

\* the k-th of them in document order
NthTestBlock(k) ==
    CHOOSE i \in TestBlockCalls :
        Cardinality({ j \in TestBlockCalls : j < i }) = k - 1

C8_OneTestCasePerTestBlock ==
    outcome.kind = "Ok" =>
        /\ Len(outcome.testcases) = Cardinality(TestBlockCalls)
        /\ \A k \in 1..Len(outcome.testcases) :
            LET c == calls[NthTestBlock(k)]
                t == outcome.testcases[k]
            IN  /\ c.first < t.line_number
                /\ t.line_number < c.last
                /\ StartsWith(doc[t.line_number], "$ ")
                /\ StartsWith(t.shell_expression,
                              SubSeq(doc[t.line_number], 3, Len(doc[t.line_number])))
                /\ \A j \in (c.first + 1)..(t.line_number - 1) : is_comment(doc[j])

\* two test blocks give two test cases
C8_Witness ==
    /\ outcome.kind = "Ok"
    /\ Len(outcome.testcases) = 2

\* a test block and a block with another tag give one test case
C8_WitnessOtherTag ==
    /\ outcome.kind = "Ok"
    /\ Len(outcome.testcases) = 1
    /\ \E i \in 1..Len(calls) :
            /\ Gave(calls[i], { "VerbatimCodeBlock" })
            /\ calls[i].last - calls[i].first >= 2

---------------------------------------------------------------------------
(* C9.  A block whose tag is non-empty and not a test language is skipped  *)
(* entirely: put any other lines between its fences and parse returns the  *)
(* same as before, the same test cases in number and in title, command,    *)
(* expectations and configuration, and the same error if it fails.  Only   *)
(* the line numbers after the block move, by as many lines as the body     *)
(* grew; a body of the same length changes nothing at all.                 *)

\* bodies to put between the fences of a skipped block
VariantBodies ==
    { << >>, << "o" >>, << "$ c" >>, << "$ c", "o" >>, << "# h", "" >>,
      << "---" >>, << "T", "$ x" >>, << "''" >> }

ReplaceBody(d, first, last, body) ==
    SubSeq(d, 1, first) \o body \o SubSeq(d, last, Len(d))

\* the outcome with every line number after position `after` moved by delta
Moved(o, after, delta) ==
    CASE o.kind = "Ok" ->
            Ok(o.config,
               [k \in 1..Len(o.testcases) |->
                    IF o.testcases[k].line_number > after
                    THEN [o.testcases[k] EXCEPT !.line_number = @ + delta]
                    ELSE o.testcases[k]])
      [] o.kind = "Err" /\ o.error.type = "MissingLanguageSpecifier" ->
            IF o.error.line + 1 > after
            THEN Err(MissingLanguageSpecifier(o.error.line + delta))
            ELSE o
      [] OTHER -> o

---------------------------------------------------------------------------
(* C10.  A fenced block is a test block if and only if its language tag    *)
(* is, letter for letter, a member of the parser's language set; with any  *)
(* other tag, the empty tag and a tag that differs only in case among      *)
(* them, the block is read as a verbatim block.                            *)
C10_TestBlockIffTagInSet ==
    \A i \in 1..Len(calls) :
        LET c == calls[i] IN
        /\ IsBlock(c) => Began(c) /\ Opening(c).some
        /\ (c.token.some /\ Began(c) /\ Opening(c).some) =>
            /\ c.token.val.language = Opening(c).val.language
            /\ IF \E l \in languages : l = Opening(c).val.language
               THEN c.token.val.kind = "TestCodeBlock"
               ELSE c.token.val.kind = "VerbatimCodeBlock"

\* `Scrut` is no test block where `scrut` is the test language
C10_Witness ==
    /\ "scrut" \in languages
    /\ \E i \in 1..Len(calls) :
            /\ Gave(calls[i], { "VerbatimCodeBlock" })
            /\ calls[i].token.val.language = "Scrut"

\* `text` is a test block where the parser is built with it
C10_WitnessConfigured ==
    \E i \in 1..Len(calls) :
        /\ Gave(calls[i], { "TestCodeBlock" })
        /\ calls[i].token.val.language = "text"


---------------------------------------------------------------------------
(* The HeadingStack on its own: any sequence of its four operations, from  *)
(* the default stack.  Here calls holds one record, the operation applied  *)
(* last: its name and arguments, the stack before it, and kept, the stored *)
(* headings as the last set_heading (or the construction) left them.  At   *)
(* most MaxStored levels hold a heading and at most MaxParagraph lines are *)
(* pending at a time.                                                      *)

MaxParagraph == 2
MaxStored == 3

HeadingLevels == 0..(MAX_HEADING_LEVEL + 1)
HeadingTitles == { "A", "B", "C" }
ParagraphTexts == { "p" }

\* the levels at which a heading is stored
StoredLevels(hs) == { l \in 1..MAX_HEADING_LEVEL : hs.headings[l].some }

InitHeadings ==
    /\ InitWith({ << >> }, { DEFAULT_MARKDOWN_LANGUAGES })
    /\ heading_stack = HeadingStackDefault

\* the headings the current run of paragraph operations started from
Kept == IF calls = << >> THEN HeadingStackDefault.headings ELSE calls[1].kept

Applied(op, level, text, kept) ==
    /\ calls' = << [op |-> op, level |-> level, text |-> text,
                    before |-> heading_stack, kept |-> kept] >>
    /\ UNCHANGED << doc, languages, pos, line_index, content_start, config,
                    has_title_since_break, line_parser, outcome >>

SetHeading ==
    \E level \in HeadingLevels, title \in HeadingTitles :
        /\ Cardinality(StoredLevels(set_heading(heading_stack, level, title)))
                <= MaxStored
        /\ heading_stack' = set_heading(heading_stack, level, title)
        /\ Applied("set_heading", level, title,
                   set_heading(heading_stack, level, title).headings)

AddParagraph ==
    \E text \in ParagraphTexts :
        /\ Len(heading_stack.paragraph) < MaxParagraph
        /\ heading_stack' = add_paragraph(heading_stack, text)
        /\ Applied("add_paragraph", 0, text, Kept)

ClearParagraph ==
    /\ heading_stack' = clear_paragraph(heading_stack)
    /\ Applied("clear_paragraph", 0, "", Kept)

ClearAfterTest ==
    /\ heading_stack' = clear_after_test(heading_stack)
    /\ Applied("clear_after_test", 0, "", Kept)

NextHeadings ==
    \/ SetHeading
    \/ AddParagraph
    \/ ClearParagraph
    \/ ClearAfterTest

SpecHeadings == InitHeadings /\ [][NextHeadings]_vars

\* the operation applied last
LastOp == calls[1]

ParagraphOps == { "add_paragraph", "clear_paragraph", "clear_after_test" }

\* the separators a document can configure
Separators == { " > ", " / " }

---------------------------------------------------------------------------
(* C11.  set_heading(L, text) with 1 <= L <= 6 stores text at level L,     *)
(* discards every stored heading at a level deeper than L, empties the     *)
(* paragraph buffer and leaves every heading at a level shallower than L   *)
(* unchanged; so set_heading(2, C) on a stack that holds A at level 1 and  *)
(* B at level 2 leaves the composite title "A > C".                        *)
C11_SetHeadingStoresAndDiscards ==
    (calls # << >> /\ LastOp.op = "set_heading"
        /\ LastOp.level >= 1 /\ LastOp.level <= 6) =>
        /\ heading_stack.headings[LastOp.level] = Some(LastOp.text)
        /\ \A l \in 1..6 :
            /\ l > LastOp.level => heading_stack.headings[l] = None
            /\ l < LastOp.level =>
                    heading_stack.headings[l] = LastOp.before.headings[l]
        /\ heading_stack.paragraph = << >>
        /\ (LastOp.level = 2 /\ LastOp.text = "C"
                /\ LastOp.before.headings[1] = Some("A")) =>
                build_title(heading_stack, TRUE, " > ") = "A > C"

\* set_heading(2, C) on A > B > .. with a paragraph pending
C11_Witness ==
    /\ calls # << >>
    /\ LastOp.op = "set_heading"
    /\ LastOp.level = 2
    /\ LastOp.text = "C"
    /\ LastOp.before.headings[1] = Some("A")
    /\ LastOp.before.headings[2] = Some("B")
    /\ LastOp.before.headings[3].some
    /\ LastOp.before.paragraph # << >>

---------------------------------------------------------------------------
(* C12.  add_paragraph, clear_paragraph and clear_after_test never change  *)
(* any of the six stored headings: after each of them, and so after any    *)
(* sequence of them, the stored headings are those from before.            *)
C12_ParagraphOpsKeepHeadings ==
    /\ (calls # << >> /\ LastOp.op \in ParagraphOps) =>
            heading_stack.headings = LastOp.before.headings
    /\ heading_stack.headings = Kept

\* clear_after_test on a stack with headings and a pending paragraph
C12_Witness ==
    /\ calls # << >>
    /\ LastOp.op = "clear_after_test"
    /\ Len(LastOp.before.paragraph) = 2
    /\ Cardinality(StoredLevels(heading_stack)) >= 2

---------------------------------------------------------------------------
(* C13.  Under the innermost policy build_title returns the newline-joined *)
(* paragraph buffer whenever it is non-empty, whatever headings are        *)
(* stored, otherwise the stored heading with the highest level number,     *)
(* otherwise the empty string.                                             *)
C13_InnermostTitle ==
    \A separator \in Separators :
        LET title  == build_title(heading_stack, FALSE, separator)
            stored == StoredLevels(heading_stack)
        IN  IF heading_stack.paragraph # << >>
            THEN title = Join(heading_stack.paragraph, "\n")
            ELSE IF stored # {}
                 THEN \E l \in stored :
                        /\ \A m \in stored : m <= l
                        /\ title = heading_stack.headings[l].val
                 ELSE title = ""

\* two headings stored and no paragraph: the deeper one is the title
C13_Witness ==
    /\ heading_stack.paragraph = << >>
    /\ heading_stack.headings[1] = Some("A")
    /\ heading_stack.headings[3] = Some("B")
    /\ StoredLevels(heading_stack) = { 1, 3 }

\* headings stored and a paragraph of two lines pending
C13_WitnessParagraph ==
    /\ Len(heading_stack.paragraph) = 2
    /\ StoredLevels(heading_stack) # {}

---------------------------------------------------------------------------
(* C14.  The stored headings in level order, unset levels left out.        *)
StoredInOrder(hs) ==
    LET stored == StoredLevels(hs)
        nth(k) == CHOOSE l \in stored :
                      Cardinality({ m \in stored : m < l }) = k - 1
    IN  [k \in 1..Cardinality(stored) |-> hs.headings[nth(k)].val]

(* C14, as amended.  Under the composite policy build_title returns the    *)
(* stored headings joined in level order with the separator, unset levels  *)
(* left out; a non-empty paragraph buffer follows, newline-joined, after   *)
(* one more separator when a heading is stored and with no separator when  *)
(* none is.                                                                *)
C14_CompositeTitle ==
    \A separator \in Separators :
        LET title    == build_title(heading_stack, TRUE, separator)
            headings == Join(StoredInOrder(heading_stack), separator)
            text     == Join(heading_stack.paragraph, "\n")
        IN  IF heading_stack.paragraph = << >>
            THEN title = headings
            ELSE IF StoredLevels(heading_stack) = {}
                 THEN title = text
                 ELSE title = headings \o separator \o text

\* a level skipped between two stored headings, and a paragraph pending
C14_Witness ==
    /\ StoredLevels(heading_stack) = { 1, 3 }
    /\ heading_stack.paragraph = << "p", "p" >>

(* C14, as claimed: for every heading-stack state the composite title is   *)
(* the stored headings joined with the separator, followed, if the         *)
(* paragraph buffer is non-empty, by one more separator and the paragraph. *)
C14_ParagraphAlwaysAfterSeparator ==
    \A separator \in Separators :
        LET headings == Join(StoredInOrder(heading_stack), separator)
            text     == Join(heading_stack.paragraph, "\n")
        IN  build_title(heading_stack, TRUE, separator) =
                IF heading_stack.paragraph = << >>
                THEN headings
                ELSE headings \o separator \o text


---------------------------------------------------------------------------
(* Documents put together from whole pieces: a piece is a plain line or a  *)
(* whole fenced block.                                                     *)

RECURSIVE Flatten(_)
Flatten(pieces) ==
    IF pieces = << >> THEN << >> ELSE Head(pieces) \o Flatten(Tail(pieces))

\* the documents of at most n pieces
DocsOfPieces(pieces, n) ==
    UNION { { Flatten(s) : s \in [1..k -> pieces] } : k \in 0..n }

MaxTitlePieces == 5

\* a paragraph line, front matter (plain lines when not at the start), a
\* blank line, a heading, a skipped block, a test block
TitlePieces ==
    { << "P" >>, << "---", "defaults: {timeout: 3m}", "---" >>,
      << "" >>, << "# h" >>,
      << "'''text", "o", "'''" >>, << "'''scrut", "$ c", "'''" >> }

InitTitles ==
    InitWith(DocsOfPieces(TitlePieces, MaxTitlePieces),
             { DEFAULT_MARKDOWN_LANGUAGES })

SpecTitles == InitTitles /\ [][Next]_vars

---------------------------------------------------------------------------
(* C15.  Paragraph text is a plain line that, trimmed, begins with a       *)
(* letter; title content is paragraph text or a heading line.              *)

IsParagraphCall(j) ==
    /\ Gave(calls[j], { "Line" })
    /\ LET text == Trim(calls[j].token.val.line) IN
       text # "" /\ IsLetter(Char(text, 1))

IsHeadingCall(j) ==
    /\ Gave(calls[j], { "Line" })
    /\ StartsWith(Trim(calls[j].token.val.line), "# ")

\* the paragraph lines that end at call j in one run; with through set, a
\* skipped verbatim block does not end the run
RECURSIVE ParagraphRun(_, _)
ParagraphRun(j, through) ==
    IF j < 1 THEN << >>
    ELSE IF IsParagraphCall(j)
         THEN Append(ParagraphRun(j - 1, through), Trim(calls[j].token.val.line))
         ELSE IF through /\ Gave(calls[j], { "VerbatimCodeBlock" })
              THEN ParagraphRun(j - 1, through)
              ELSE << >>

\* the last call read a test block into a test case, and the title content
\* nearest before it, with no other test block between, is paragraph text
TestAfterParagraph(j) ==
    /\ outcome = Running
    /\ ~use_composite_test_names(config)
    /\ Len(calls) >= 2
    /\ Gave(calls[Len(calls)], { "TestCodeBlock" })
    /\ j \in 1..(Len(calls) - 1)
    /\ IsParagraphCall(j)
    /\ \A k \in (j + 1)..(Len(calls) - 1) :
            /\ ~IsParagraphCall(k)
            /\ ~IsHeadingCall(k)
            /\ ~Gave(calls[k], { "TestCodeBlock" })

LastTestCase == line_parser.testcases[Len(line_parser.testcases)]

---------------------------------------------------------------------------
(* Documents of front-matter blocks and test blocks with and without an    *)
(* inline configuration.                                                   *)

MaxConfigPieces == 3

FrontMatterPieces ==
    { << "---", "defaults: {timeout: 3m}", "---" >>,
      << "---", "composite_test_names: true", "---" >> }

ConfigPieces ==
    FrontMatterPieces \cup
    { << "'''scrut {timeout: 5m}", "$ c", "'''" >>,
      << "'''scrut {wait: 4m}", "$ c", "'''" >>,
      << "'''scrut {}", "$ c", "'''" >>,
      << "'''scrut", "$ c", "'''" >>,
      << "'''text", "'''" >>,
      << "T" >> }

InitConfig ==
    InitWith(DocsOfPieces(ConfigPieces, MaxConfigPieces),
             { DEFAULT_MARKDOWN_LANGUAGES })

SpecConfig == InitConfig /\ [][Next]_vars

---------------------------------------------------------------------------
(* C16.  What the inline fragment of an opening fence sets, read off the   *)
(* line: an absent or empty fragment sets nothing.                         *)
FragmentOf(line) ==
    CASE line = "'''scrut {timeout: 5m}" -> [timeout |-> Some("5m"), wait |-> None]
      [] line = "'''scrut {wait: 4m}"    -> [timeout |-> None, wait |-> Some("4m")]
      [] OTHER                           -> [timeout |-> None, wait |-> None]

\* the last call read a test block into a test case
TestJustRead ==
    /\ outcome = Running
    /\ calls # << >>
    /\ Gave(calls[Len(calls)], { "TestCodeBlock" })

(* C16.  For every test block, each field of the configuration pushed to   *)
(* the body accumulator is the inline fragment's value if the fragment     *)
(* sets the field, otherwise the document defaults' value if set,          *)
(* otherwise the value of the base configuration; an absent or empty       *)
(* fragment overrides nothing.                                             *)
C16_FragmentOverDefaultsOverBase ==
    TestJustRead =>
        LET fragment == FragmentOf(doc[calls[Len(calls)].first]) IN
        /\ \A f \in { "timeout", "wait" } :
                line_parser.config[f] =
                    IF fragment[f].some THEN fragment[f]
                    ELSE IF config.defaults[f].some THEN config.defaults[f]
                    ELSE base_testcase_config[f]
        /\ LastTestCase.config = line_parser.config

\* the fragment's timeout wins over the document's and the base's
C16_Witness ==
    /\ TestJustRead
    /\ config.defaults.timeout = Some("3m")
    /\ base_testcase_config.timeout = Some("15m")
    /\ line_parser.config.timeout = Some("5m")

\* the fragment sets another field: the document's timeout comes through
C16_WitnessDefaults ==
    /\ TestJustRead
    /\ config.defaults.timeout = Some("3m")
    /\ line_parser.config = [timeout |-> Some("3m"), wait |-> Some("4m")]

---------------------------------------------------------------------------
(* C17.  Merging the same valid front-matter fragment onto the running     *)
(* DocumentConfig twice gives the DocumentConfig that merging it once      *)
(* gives: a document that begins with two identical front-matter blocks    *)
(* is parsed to the configuration of the document with one of them.        *)

\* the document begins with the same front-matter block twice
BeginsWithTwin ==
    /\ Len(doc) >= 6
    /\ SubSeq(doc, 1, 3) \in FrontMatterPieces
    /\ SubSeq(doc, 4, 6) = SubSeq(doc, 1, 3)

C17_SameFrontMatterTwiceIsOnce ==
    BeginsWithTwin =>
        /\ (Len(calls) = 2 /\ outcome = Running) =>
                /\ Gave(calls[2], { "DocumentConfig" })
                /\ config = parse(SubSeq(doc, 1, 3), languages).config
        /\ Done =>
                LET once == parse(SubSeq(doc, 4, Len(doc)), languages) IN
                /\ outcome.kind = once.kind
                /\ outcome.kind = "Ok" => outcome.config = once.config

\* the second of two identical blocks was merged, onto a configuration the
\* first had changed, and a test was read after them
C17_Witness ==
    /\ BeginsWithTwin
    /\ outcome.kind = "Ok"
    /\ outcome.config # DocumentConfigDefaultMarkdown
    /\ Len(outcome.testcases) = 1
    /\ Gave(calls[2], { "DocumentConfig" })


---------------------------------------------------------------------------
(* Documents of test blocks whose bodies mix comment lines and commands.   *)

MaxBodyLines == 5

BodyLines == { "'''scrut", "# h", "$ c", "'''", "'''text", "---" }

InitBodies ==
    InitWith(DocsOver(BodyLines, MaxBodyLines), { DEFAULT_MARKDOWN_LANGUAGES })

SpecBodies == InitBodies /\ [][Next]_vars

---------------------------------------------------------------------------
(* C18.  The lines of the document between the fences of a call.           *)
Between(c) == SubSeq(doc, c.first + 1, c.last - 1)

RECURSIVE LeadingComments(_)
\* how many lines at the start of a body are comment-shaped
LeadingComments(body) ==
    IF body # << >> /\ Len(Head(body)) > 0 /\ Char(Head(body), 1) = "#"
    THEN 1 + LeadingComments(Tail(body))
    ELSE 0

(* C18.  In a test block the maximal run of comment lines right after the  *)
(* opening fence is the token's comment_lines and is never fed to the      *)
(* body; every line from the first non-comment line up to the closing      *)
(* fence, comment-shaped lines included, is a code line and is fed to the  *)
(* body in document order: the first as the command, the others after it   *)
(* as its expected output.                                                 *)
C18_LeadingCommentsAreSetAside ==
    \A j \in 1..Len(calls) :
        Gave(calls[j], { "TestCodeBlock" }) =>
            LET token == calls[j].token.val
                body  == Between(calls[j])
                k     == LeadingComments(body)
                code  == SubSeq(body, k + 1, Len(body))
            IN
            /\ Texts(token.comment_lines) = SubSeq(body, 1, k)
            /\ Texts(token.code_lines) = code
            /\ (j = Len(calls) /\ outcome = Running) =>
                    /\ code # << >>
                    /\ Head(code) = "$ c"
                    /\ LastTestCase.shell_expression = "c"
                    /\ LastTestCase.expectations = Tail(code)
            /\ (j = Len(calls) /\ code # << >> /\ Head(code) = "$ c") =>
                    outcome = Running

\* the comment line is set aside, and a comment-shaped line after the
\* command is fed to the body
C18_Witness ==
    /\ outcome = Running
    /\ calls # << >>
    /\ Gave(calls[Len(calls)], { "TestCodeBlock" })
    /\ Len(calls[Len(calls)].token.val.comment_lines) = 1
    /\ Texts(calls[Len(calls)].token.val.code_lines) = << "$ c", "# h" >>
    /\ LastTestCase.expectations = << "# h" >>


---------------------------------------------------------------------------
(* Documents of lines that are, or nearly are, fences.                     *)

MaxFenceLines == 4

ShortFenceLines ==
    { "''scrut", "''", "'''", "''''", "'''scrut", "$ c", "---" }

InitFences ==
    InitWith(DocsOver(ShortFenceLines, MaxFenceLines),
             { DEFAULT_MARKDOWN_LANGUAGES })

SpecFences == InitFences /\ [][Next]_vars

\* the line is a run of backticks and nothing else
IsBareRun(line) == Len(line) > 0 /\ BacktickRun(line) = Len(line)

---------------------------------------------------------------------------
(* C19.  The fence classifier accepts a line as a fence opening only if    *)
(* the line begins with a run of three or more backticks: a call of next() *)
(* that begins on a line with a shorter run finds no fence there and gives *)
(* no block.  The code accepts a run of two backticks before a tag.        *)
C19_FenceNeedsThreeBackticks ==
    \A j \in 1..Len(calls) :
        (Began(calls[j]) /\ BacktickRun(doc[calls[j].first]) < 3) =>
            /\ ~Opening(calls[j]).some
            /\ ~IsBlock(calls[j])

---------------------------------------------------------------------------
(* C20.  Every line that is a run of three or more backticks and nothing   *)
(* else is classified as a fence opening with an empty language tag, so a  *)
(* call of next() that begins on such a line scans for the closing fence   *)
(* and never gives the line as a plain line.  The code knows the bare run  *)
(* of exactly three only.                                                  *)
C20_BareRunOpensBlock ==
    \A j \in 1..Len(calls) :
        (/\ Began(calls[j])
         /\ IsBareRun(doc[calls[j].first])
         /\ BacktickRun(doc[calls[j].first]) >= 3) =>
            /\ Opening(calls[j]).some
            /\ Opening(calls[j]).val.language = ""
            /\ ~Gave(calls[j], { "Line" })


---------------------------------------------------------------------------
(* C21.  For every document parse ends in a (DocumentConfig, test cases)   *)
(* result or in one of the declared errors; a recognized test block with   *)
(* no body lines (the closing fence right after the opening fence, or     *)
(* after comment lines only) ends the parse with an error value from       *)
(* finalization, never with an abnormal abort.  The code indexes the last  *)
(* of no code lines and aborts.                                            *)
C21_ParseEndsInResultOrError ==
    /\ outcome.kind \in { "Running", "Ok", "Err" }
    /\ \A j \in 1..Len(calls) :
            (/\ Gave(calls[j], { "TestCodeBlock" })
             /\ calls[j].token.val.code_lines = << >>) =>
                outcome.kind = "Err"


---------------------------------------------------------------------------
(* C22.  The call just made and the token it gave.                         *)
Latest == calls[Len(calls)]

\* parse's local state when that call was made
Before == Latest.before

\* the call just made gave a plain line that is, or is not, title content
LatestIsTitleLine ==
    /\ calls # << >>
    /\ Gave(Latest, { "Line" })
    /\ extract_title(Latest.token.val.line).some

LatestIsOtherLine ==
    /\ calls # << >>
    /\ Gave(Latest, { "Line" })
    /\ ~extract_title(Latest.token.val.line).some

\* the title build_title gives for the stack under the document's policy
TitleNow ==
    build_title(heading_stack, use_composite_test_names(config),
                get_composite_test_name_separator(config))

(* C22.  When a plain line is not title content and a title was pending,   *)
(* the parser empties only the paragraph buffer and resets the pending     *)
(* flag: the stored headings and the title already pushed to the body      *)
(* accumulator are unchanged.  A title line pushes what build_title        *)
(* returns and no other step pushes a title, so the pushed title always    *)
(* equals the value build_title returned at the most recent title line.    *)
C22_OtherLineClearsParagraphOnly ==
    calls # << >> =>
        /\ (LatestIsOtherLine /\ Before.has_title_since_break /\ outcome = Running) =>
              /\ heading_stack.headings = Before.heading_stack.headings
              /\ heading_stack.paragraph = << >>
              /\ has_title_since_break = FALSE
              /\ line_parser = Before.line_parser
              /\ config = Before.config
        /\ (LatestIsTitleLine /\ outcome = Running) =>
              line_parser.title = TitleNow
        /\ ~LatestIsTitleLine => line_parser.title = Before.line_parser.title

\* a paragraph under a heading was pushed as the title, then a line that
\* is not title content emptied the paragraph: the pushed title is still
\* the paragraph's
C22_Witness ==
    /\ outcome = Running
    /\ Len(calls) >= 2
    /\ LatestIsOtherLine
    /\ IsParagraphCall(Len(calls) - 1)
    /\ Before.has_title_since_break
    /\ heading_stack.paragraph = << >>
    /\ StoredLevels(heading_stack) # {}
    /\ ~has_title_since_break
    /\ line_parser.title = "P"
    /\ TitleNow = "h"


---------------------------------------------------------------------------
(* Documents of title lines, other lines and blocks whose bodies hold      *)
(* heading-shaped and paragraph-shaped lines.                              *)

MaxFramePieces == 5

FramePieces ==
    { << "P" >>, << "# h" >>, << "####### s" >>,
      << "---", "composite_test_names: true", "---" >>,
      << "'''text", "# g", "Q", "'''" >>,
      << "'''scrut {wait: 4m}", "# g", "$ c", "Q", "'''" >> }

InitFrames ==
    InitWith(DocsOfPieces(FramePieces, MaxFramePieces),
             { DEFAULT_MARKDOWN_LANGUAGES })

SpecFrames == InitFrames /\ [][Next]_vars


---------------------------------------------------------------------------
(* C23.  How many of the calls k+1..j gave a paragraph line, and whether   *)
(* any of them gave a heading line that the stack stores.                  *)
RECURSIVE ParagraphCallsIn(_, _)
ParagraphCallsIn(k, j) ==
    IF j <= k THEN 0
    ELSE ParagraphCallsIn(k, j - 1) + (IF IsParagraphCall(j) THEN 1 ELSE 0)

HeadingCallIn(k, j) ==
    \E i \in (k + 1)..j :
        /\ Gave(calls[i], { "Line" })
        /\ extract_header(Trim(calls[i].token.val.line)).some

\* parse's local state after call k, for k before the latest call
AfterCall(k) == calls[k + 1].before

(* C23.  After every test block is processed the paragraph buffer is empty *)
(* and all stored headings are unchanged, so the title computed at a later *)
(* title line never contains paragraph text that preceded the earlier      *)
(* test, while the stack still holds the headings the tests share.         *)
C23_TestClearsParagraphKeepsHeadings ==
    calls # << >> =>
        /\ (Gave(Latest, { "TestCodeBlock" }) /\ outcome = Running) =>
              /\ heading_stack.paragraph = << >>
              /\ heading_stack.headings = Before.heading_stack.headings
              /\ has_title_since_break = FALSE
        /\ \A k \in 1..(Len(calls) - 1) :
              (Gave(calls[k], { "TestCodeBlock" }) /\ outcome = Running) =>
                  /\ Len(heading_stack.paragraph) <= ParagraphCallsIn(k, Len(calls))
                  /\ LatestIsTitleLine => line_parser.title = TitleNow
                  /\ ~HeadingCallIn(k, Len(calls)) =>
                        heading_stack.headings = AfterCall(k).heading_stack.headings

\* under the composite policy a heading and a paragraph named a first test;
\* the paragraph line after it is joined to the shared heading alone
C23_Witness ==
    /\ outcome = Running
    /\ Len(calls) >= 2
    /\ Gave(calls[Len(calls) - 1], { "TestCodeBlock" })
    /\ IsParagraphCall(Len(calls))
    /\ Len(Before.heading_stack.paragraph) = 0
    /\ LastTestCase.title = "h > P"
    /\ heading_stack.paragraph = << "P" >>
    /\ line_parser.title = "h > P"


---------------------------------------------------------------------------
(* C24.  Processing a verbatim block with a non-empty language tag changes *)
(* no parser state: the stored headings, the paragraph buffer, the         *)
(* title-pending flag, the pushed title, the running DocumentConfig and    *)
(* the test-case list are the same after the block as before it.           *)
C24_VerbatimBlockChangesNothing ==
    (/\ calls # << >>
     /\ Gave(Latest, { "VerbatimCodeBlock" })
     /\ Latest.token.val.language # "") =>
        /\ outcome = Running
        /\ heading_stack = Before.heading_stack
        /\ has_title_since_break = Before.has_title_since_break
        /\ line_parser = Before.line_parser
        /\ config = Before.config

\* a block is skipped while a paragraph under a heading is pending and a
\* test case has been read
C24_Witness ==
    /\ calls # << >>
    /\ Gave(Latest, { "VerbatimCodeBlock" })
    /\ Latest.token.val.language = "text"
    /\ has_title_since_break
    /\ heading_stack.paragraph = << "P" >>
    /\ StoredLevels(heading_stack) # {}
    /\ Len(line_parser.testcases) = 1
    /\ line_parser.title = "P"


---------------------------------------------------------------------------
(* C25.  The error that processing the token of a call must end in, read   *)
(* off the token: a block without a language, front matter or an inline    *)
(* configuration that is not a valid fragment, a body that does not begin  *)
(* with a command (an empty body included).                                *)
FailureOf(c) ==
    LET token == c.token.val IN
    CASE Gave(c, { "VerbatimCodeBlock" }) /\ token.language = "" ->
            Some("MissingLanguageSpecifier")
      [] Gave(c, { "DocumentConfig" })
            /\ ~DocumentConfigFromStr(join_newline(token.lines)).some ->
            Some("ConfigParseError")
      [] Gave(c, { "TestCodeBlock" })
            /\ token.config_lines # << >>
            /\ ~TestCaseConfigFromStr("{" \o join_newline(token.config_lines) \o "}").some ->
            Some("ConfigParseError")
      [] Gave(c, { "TestCodeBlock" })
            /\ \/ token.code_lines = << >>
               \/ ~StartsWith(token.code_lines[1][2], "$ ") ->
            Some("BodyStructureError")
      [] OTHER -> None

(* C25.  Errors are fatal and ordered: once processing of a token fails,   *)
(* no later token is processed and no test cases are returned, and the     *)
(* error reported is that of the first failing token in document order.    *)
(* The code reports no error for a test block with an empty body: it       *)
(* aborts (C21).                                                           *)
C25_FirstFailureIsReported ==
    /\ \A k \in 1..Len(calls) :
            /\ calls[k].before.outcome = Running
            /\ k < Len(calls) => ~FailureOf(calls[k]).some
    /\ (calls # << >> /\ FailureOf(Latest).some) =>
            /\ outcome.kind = "Err"
            /\ outcome.error.type = FailureOf(Latest).val
    /\ outcome.kind \in { "Err", "Panic" } =>
            (calls # << >> /\ FailureOf(Latest).some)


---------------------------------------------------------------------------
(* C26.  The (index, text) pairs a token records, in the order the         *)
(* tokenizer pushed them; a verbatim block records the index of its        *)
(* opening line.                                                           *)
PairsOf(token) ==
    CASE token.kind = "DocumentConfig" -> token.lines
      [] token.kind = "Line" -> << << token.index, token.line >> >>
      [] token.kind = "VerbatimCodeBlock" ->
            << << token.starting_line_number, token.lines[1] >> >>
      [] token.kind = "TestCodeBlock" ->
            token.config_lines \o token.comment_lines \o token.code_lines

\* the pair is the line of the document at its 0-based index, or the
\* fragment between the braces that end that line
IsLineAt(pair, at) ==
    /\ at \in 1..Len(doc)
    /\ pair[1] = at - 1
    /\ \/ pair[2] = doc[at]
       \/ EndsWith(doc[at], " {" \o pair[2] \o "}")

(* C26.  Every (index, text) pair recorded in any token (front-matter      *)
(* lines, plain lines, inline-config lines, comment lines, code lines and  *)
(* a verbatim block's start index) carries the 0-based position of that    *)
(* line in the original document, and indices are strictly increasing      *)
(* across the token stream: each call reads on from where the one before   *)
(* it stopped.                                                             *)
C26_PairsCarryZeroBasedIndex ==
    \A j \in 1..Len(calls) :
        /\ calls[j].first = (IF j = 1 THEN 1 ELSE calls[j - 1].last + 1)
        /\ calls[j].token.some =>
            LET pairs == PairsOf(calls[j].token.val) IN
            /\ calls[j].first <= calls[j].last
            /\ calls[j].last <= Len(doc)
            /\ \A i \in 1..Len(pairs) :
                    /\ IsLineAt(pairs[i], pairs[i][1] + 1)
                    /\ pairs[i][1] + 1 \in calls[j].first..calls[j].last
            /\ \A i \in 1..(Len(pairs) - 1) : pairs[i][1] < pairs[i + 1][1]

\* after front matter and a plain line, a test block with an inline
\* fragment, a comment line and two code lines
C26_Witness ==
    /\ Len(calls) >= 3
    /\ Gave(calls[1], { "DocumentConfig" })
    /\ Gave(calls[2], { "Line" })
    /\ Gave(Latest, { "TestCodeBlock" })
    /\ Len(Latest.token.val.config_lines) = 1
    /\ Len(Latest.token.val.comment_lines) = 1
    /\ Len(Latest.token.val.code_lines) = 2
    /\ Latest.token.val.config_lines[1][1] = Latest.first - 1
    /\ Latest.first > 4


---------------------------------------------------------------------------
(* parse runs its loop to the end: a turn of the loop that can be taken is *)
(* taken.  Turn is any one turn of the loop, the call of next() and the    *)
(* arm of its token or the return at its end.                              *)
Turn ==
    /\ outcome = Running
    /\ \E y \in { Tok } :
          /\ Advance(y)
          /\ \E ps \in { IF y.token.some
                          THEN Handle(Locals, y.token.val)
                          ELSE [Locals EXCEPT
                                  !.outcome = Ok(config, line_parser.testcases)] } :
                Become(ps)

\* documents of a few whole pieces, one of them a block left open
MaxLoopPieces == 3

LoopPieces ==
    { << "---", "composite_test_names: true", "---" >>,
      << "P" >>,
      << "'''text", "'''" >>,
      << "'''scrut", "$ c", "'''" >>,
      << "'''scrut" >> }

InitTerminates ==
    InitWith(DocsOfPieces(LoopPieces, MaxLoopPieces),
             { DEFAULT_MARKDOWN_LANGUAGES })

SpecTerminates == InitTerminates /\ [][Next]_vars /\ WF_vars(Turn)

\* every call that gave a token took at least one line, and none reads
\* past the end of the document
EveryTokenTakesALine ==
    /\ pos <= Len(doc)
    /\ \A j \in 1..Len(calls) :
            calls[j].token.some =>
                /\ calls[j].first <= calls[j].last
                /\ calls[j].last <= Len(doc)
                /\ j <= Len(doc)

\* parse returns Ok at the first call that gives no token, and a further
\* call would give none either
NoTokenAfterTheEnd ==
    outcome.kind = "Ok" =>
        /\ ~Latest.token.some
        /\ \A j \in 1..(Len(calls) - 1) : calls[j].token.some
        /\ ~Tok.token.some

(* C27.  Parsing terminates for every finite document: each tokenizer      *)
(* step that yields a token consumes at least one line, the token stream   *)
(* is finite (parse returns), and after exhaustion the tokenizer yields no *)
(* further token.                                                          *)
C27_ParseTerminates ==
    /\ [](EveryTokenTakesALine /\ NoTokenAfterTheEnd)
    /\ <>Done

\* parse has returned Ok after a plain line, a block that took three lines
\* and the call that gave no token
C27_Witness ==
    /\ outcome.kind = "Ok"
    /\ Len(calls) = 3
    /\ pos = Len(doc)
    /\ IsBlock(calls[2])
    /\ calls[2].last = calls[2].first + 2


---------------------------------------------------------------------------
(* C28.  The call just made gave a heading line of a level the heading     *)
(* stack does not store.                                                   *)
LatestIsDeepHeading ==
    /\ LatestIsTitleLine
    /\ extract_title(Latest.token.val.line).val.level > MAX_HEADING_LEVEL

(* C28.  set_heading with a level of 0 or greater than 6 is a no-op: the   *)
(* stored headings and the paragraph buffer are exactly as before, so a    *)
(* heading line with seven or more # characters changes neither the        *)
(* heading stack nor the title derived from it.                            *)
C28_OutOfRangeLevelIsNoOp ==
    /\ \A level \in { 0, MAX_HEADING_LEVEL + 1, MAX_HEADING_LEVEL + 2 } :
            set_heading(heading_stack, level, "s") = heading_stack
    /\ (LatestIsDeepHeading /\ outcome = Running) =>
            /\ heading_stack = Before.heading_stack
            /\ TitleNow = build_title(Before.heading_stack,
                                      use_composite_test_names(Before.config),
                                      get_composite_test_name_separator(Before.config))
            /\ line_parser.title = TitleNow

\* a line of seven # comes while a paragraph is pending under a heading
C28_Witness ==
    /\ outcome = Running
    /\ LatestIsDeepHeading
    /\ Latest.token.val.line = "####### s"
    /\ heading_stack.paragraph = << "P" >>
    /\ heading_stack.headings[1] = Some("h")
    /\ line_parser.title = "P"


---------------------------------------------------------------------------
(* C29.  Line p of the document lies inside the block that the first line  *)
(* of the document opens: the first line begins with a run of three or     *)
(* more backticks, a later line begins with that run, and no line from the *)
(* second up to p does.                                                    *)
InsideFirstBlock(p) ==
    LET run == BacktickRun(doc[1])
        marker == SubSeq(doc[1], 1, run)
    IN  /\ run >= 3
        /\ p > 1
        /\ \A i \in 2..p : ~StartsWith(doc[i], marker)
        /\ \E c \in (p + 1)..Len(doc) : StartsWith(doc[c], marker)

(* C29.  Lines inside a fenced block or a front-matter block never affect  *)
(* title state: a heading-shaped or paragraph-shaped line between an       *)
(* opening fence (or ---) and its closer never changes the stored          *)
(* headings, the paragraph buffer or the pushed title.  The code reads the *)
(* lines after a bare run of four backticks as plain lines (C20).          *)
C29_InnerLinesLeaveTitleAlone ==
    \A j \in 1..Len(calls) :
        /\ (Gave(calls[j], { "DocumentConfig", "VerbatimCodeBlock" })
                /\ j < Len(calls)) =>
              /\ AfterCall(j).heading_stack = calls[j].before.heading_stack
              /\ AfterCall(j).line_parser.title = calls[j].before.line_parser.title
        /\ (Gave(calls[j], { "TestCodeBlock" }) /\ j < Len(calls)) =>
              /\ AfterCall(j).heading_stack.headings
                    = calls[j].before.heading_stack.headings
              /\ AfterCall(j).line_parser.title = calls[j].before.line_parser.title
        /\ (Gave(calls[j], { "Line" }) /\ InsideFirstBlock(calls[j].first)
                /\ j < Len(calls)) =>
              /\ AfterCall(j).heading_stack = calls[j].before.heading_stack
              /\ AfterCall(j).line_parser.title = calls[j].before.line_parser.title


---------------------------------------------------------------------------
(* C30.  The calls that gave a title line or a test block.                 *)
IsTitleOrTestCall(j) ==
    \/ Gave(calls[j], { "TestCodeBlock" })
    \/ /\ Gave(calls[j], { "Line" })
       /\ extract_title(calls[j].token.val.line).some

(* C30.  No FrontMatter token is processed after any title line or test    *)
(* block, so the running DocumentConfig is final before the first title is *)
(* computed: every test title and every merged test configuration is       *)
(* derived under the same naming policy, separator and document defaults   *)
(* that parse returns.                                                     *)
C30_ConfigFinalBeforeFirstTitle ==
    /\ \A j \in 1..Len(calls) : \A k \in (j + 1)..Len(calls) :
            IsTitleOrTestCall(j) => ~Gave(calls[k], { "DocumentConfig" })
    /\ \A j \in 1..Len(calls) :
            IsTitleOrTestCall(j) =>
                /\ calls[j].before.config = config
                /\ outcome.kind = "Ok" => calls[j].before.config = outcome.config

\* front matter set the document's defaults, then a title line and a test
\* block came and parse returned that configuration
C30_Witness ==
    /\ outcome.kind = "Ok"
    /\ Len(calls) = 4
    /\ Gave(calls[1], { "DocumentConfig" })
    /\ Gave(calls[2], { "Line" })
    /\ Gave(calls[3], { "TestCodeBlock" })
    /\ outcome.config.defaults.timeout = Some("3m")
    /\ outcome.testcases[1].title = "T"
    /\ outcome.testcases[1].config = [timeout |-> Some("3m"), wait |-> Some("4m")]


---------------------------------------------------------------------------
(* Documents of test blocks whose opening lines carry inline text in       *)
(* braces: a valid fragment, one that is no valid fragment, one without    *)
(* the closing brace and one with a blank after it.                        *)

MaxInlinePieces == 3

InlinePieces ==
    { << "---", "defaults: {timeout: 3m}", "---" >>,
      << "T" >>,
      << "'''text", "'''" >>,
      << "'''scrut {timeout: 5m}", "$ c", "'''" >>,
      << "'''scrut {bogus}", "$ c", "'''" >>,
      << "'''scrut {timeout: 5m", "$ c", "'''" >>,
      << "'''scrut {timeout: 5m} ", "$ c", "'''" >> }

InitInline ==
    InitWith(DocsOfPieces(InlinePieces, MaxInlinePieces),
             { DEFAULT_MARKDOWN_LANGUAGES })

SpecInline == InitInline /\ [][Next]_vars

---------------------------------------------------------------------------
(* C31.  The inline text the opening line of the call just made carries,   *)
(* as the fence classifier gives it.                                       *)
InlineText == Opening(Latest).val.config

(* C31.  Inline configuration is never silently dropped: whenever the      *)
(* opening line of a recognized test block carries inline text starting    *)
(* with { other than exactly {}, that text is either parsed and merged     *)
(* into the test's configuration or the parse fails with a configuration   *)
(* error.  The code drops inline text that does not end with }.            *)
C31_InlineConfigNeverDropped ==
    (/\ calls # << >>
     /\ Gave(Latest, { "TestCodeBlock" })
     /\ StartsWith(InlineText, "{")
     /\ InlineText # "{}") =>
        \/ /\ outcome.kind = "Err"
           /\ outcome.error.type = "ConfigParseError"
        \/ /\ Len(Latest.token.val.config_lines) = 1
           /\ "{" \o Latest.token.val.config_lines[1][2] \o "}" = InlineText
           /\ TestCaseConfigFromStr(InlineText).some
           /\ line_parser.config =
                  MergedConfig(TestCaseConfigFromStr(InlineText).val, Before.config)

====
